---- MODULE Spec2Model ----
(***************************************************************************)
(* Model of the I2C_24LC1025 EEPROM driver (libraries/I2C_24LC1025):       *)
(* the page-aligned chunked writer (_pageBlock / _WriteBlock), the bank     *)
(* split reader (readBlock / _ReadBlock), updateBlock and writeBlockVerify. *)
(* One public call runs per behaviour, one bus transaction per step.        *)
(* The ready polling that precedes every low-level transaction             *)
(* (_waitEEReady and the wait loop of _beginTransmission) is modelled on   *)
(* its own, with the clock and _lastWrite, in the specification SpecGate.  *)
(* SpecSHT models the heater control of the SHT85 driver                    *)
(* (libraries/SHT85: heatOn, heatOff, isHeaterOn).                          *)
(* SpecFRAM models the typed reads and writes of FRAM32                     *)
(* (libraries/FRAM_I2C: write8/16/32, read8/16/32).                         *)
(* SpecM62429 models the volume control of the M62429 driver                *)
(* (libraries/M62429: setVolume, incr, decr, average, muteOn, muteOff).     *)
(***************************************************************************)
EXTENDS Integers, Sequences, FiniteSets, TLC

VARIABLES
    pc,        \* position of the running call: idle, pageBlock, readBlock, updateBlock, done
    op,        \* the public call in progress: name, memoryAddress, length, buffer
    image,     \* content of the device before the call
    mem,       \* bytes stored by the call, by physical address (overrides image)
    bus,       \* the data transactions issued to the Wire bus, in order
    faults,    \* failing bus transactions so far
    pb,        \* locals of _pageBlock: addr, len, buffer offset, incrBuffer, rv
    rb,        \* locals of readBlock: pending (sub)calls, rv
    ub,        \* locals of updateBlock: addr, len, buffer offset, rv, cnt
    data,      \* destination buffer of readBlock, by index (unwritten: absent)
    rv,        \* integer return value of the public call
    verified,  \* boolean return value of writeBlockVerify
    yld,       \* yield() calls outside the ready polling: their number so far,
               \* and that number at the moment each transaction was issued
    gate,      \* one low-level transaction at a time, with its ready polling:
               \* position, micros(), _lastWrite, _extraTWR, probes and delays
    sht,       \* the SHT object: millis(), _heaterOn, _heaterStart, _heaterStop,
               \* _heatTimeout, _error, and what the last call did
    fram,      \* the FRAM32 chip (bytes and address counters of its two bus
               \* addresses) and the calls made so far
    m62429     \* the M62429 object (_vol, _muted), the levels latched in the
               \* chip, and what the last call did

eepromVars == <<pc, op, image, mem, bus, faults, pb, rb, ub, data, rv, verified, yld>>

\* the variables the block transfers leave alone
others == <<gate, sht, fram, m62429>>

\* the variables the ready polling leaves alone
gateOthers == <<eepromVars, sht, fram, m62429>>

\* the variables the SHT heater control leaves alone
shtOthers == <<eepromVars, gate, fram, m62429>>

\* the variables the FRAM32 calls leave alone
framOthers == <<eepromVars, gate, sht, m62429>>

\* the variables the M62429 calls leave alone
m62429Others == <<eepromVars, gate, sht, fram>>

vars == <<eepromVars, others>>

----------------------------------------------------------------------------
\* Program constants and integer widths. The uint32_t addresses and lengths stay
\* below 2^18 in every call of the model, so their sums never wrap and are
\* written without a modulus (2^32 is beyond the integers of the model checker).

I2C_BUFFERSIZE == 30

I2C_PAGESIZE_24LC1025 == 128

BankBoundary == 65536

UInt8 == 256

UInt16 == 65536

DeviceAddress == 80

----------------------------------------------------------------------------
\* Bounds of the model

MaxFaults == 1

\* start addresses: page start, 8 below a page boundary, 6 below the bank
\* boundary, the bank boundary itself
Addresses == {0, 120, 65530, 65536}

\* lengths of buffers that are read back or compared
Lengths == {0, 1, 10, 40}

\* lengths at or above 2^16, given to writeBlock and setBlock only
LongLengths == {65536, 65546}

\* the fill of the scenario setBlock(0, 0xFF, 1000)
FillLengths == {1000}

\* the scenario of 300 bytes written from 16 below the bank boundary
Scenario300 == {<<65520, 300, "ramp">>}

Values == {0, 255}

BufKinds == {"ramp", "same", "same1"}

Images == {"erased", "pattern"}

WriteStatus == {2, 4}

----------------------------------------------------------------------------
\* Helpers

Min(a, b) == IF a < b THEN a ELSE b

\* content of the device before the call, by physical address
Image(p) == IF image = "erased" THEN 255 ELSE (p % 251)

\* the device byte a transaction reaches: the select address picks the bank
\* (bit 2), the two address bytes the position inside the bank
BankOf(sel) == (sel \div 4) % 2

\* sequential read: the address counter wraps inside the bank
DevReadPhys(sel, ma, j) == (BankOf(sel) * BankBoundary) + ((ma + j) % BankBoundary)

\* page write: the address counter wraps inside the page
DevWritePhys(sel, ma, j) ==
    (BankOf(sel) * BankBoundary)
      + (ma - (ma % I2C_PAGESIZE_24LC1025))
      + (((ma % I2C_PAGESIZE_24LC1025) + j) % I2C_PAGESIZE_24LC1025)

\* physical position of logical address m, as _beginTransmission resolves it
Phys(m) == (IF m >= BankBoundary THEN BankBoundary ELSE 0) + (m % BankBoundary)

MemAt(p) == IF p \in DOMAIN mem THEN mem[p] ELSE Image(p)

\* the caller's source buffer (setBlock: its local buffer filled with data)
Buf(i) ==
    CASE op.buf = "const" -> op.val
      [] op.buf = "ramp"  -> (i + 1) % UInt8
      [] op.buf = "same"  -> Image(Phys(op.addr + i))
      [] op.buf = "same1" ->
            IF i = 0 THEN (Image(Phys(op.addr)) + 1) % UInt8
            ELSE Image(Phys(op.addr + i))

----------------------------------------------------------------------------
\* _beginTransmission: select address and the two address bytes

\* variant: the select address never carries the bank bit
_actualAddressNoBank(memoryAddress) == DeviceAddress

_actualAddress(memoryAddress) ==
    IF memoryAddress >= BankBoundary
    THEN (IF (DeviceAddress \div 4) % 2 = 1 THEN DeviceAddress ELSE DeviceAddress + 4)
    ELSE DeviceAddress

memAddr(memoryAddress) == memoryAddress % UInt16

\* the two address bytes sent after the select address
highByte(memoryAddress) == (memAddr(memoryAddress) \div UInt8) % UInt8

lowByte(memoryAddress) == memAddr(memoryAddress) % UInt8

----------------------------------------------------------------------------
\* _pageBlock

\* variant: the bytes since the page start instead of the bytes up to its end
bytesSincePageStart(addr) == (addr % I2C_PAGESIZE_24LC1025) % UInt8

bytesUntilPageBoundary(addr) ==
    (I2C_PAGESIZE_24LC1025 - (addr % I2C_PAGESIZE_24LC1025)) % UInt8

\* variant: the chunk is limited by the buffer and the length only
pageCntNoPage(addr, len) ==
    IF I2C_BUFFERSIZE > len THEN len % UInt8 ELSE I2C_BUFFERSIZE

pageCnt(addr, len) ==
    LET c0 == I2C_BUFFERSIZE
        c1 == IF c0 > len THEN len % UInt8 ELSE c0
    IN  IF c1 > bytesUntilPageBoundary(addr) THEN bytesUntilPageBoundary(addr) ELSE c1

\* variant: the loop goes on after a failed chunk
pageBlockRunsAfterFailure(len, r) == len > 0

\* the while test of _pageBlock together with its early return
pageBlockRuns(len, r) == len > 0 /\ r = 0

\* _WriteBlock(addr, buffer + off, cnt) ending with status st
WriteTxn(addr, off, cnt, st) ==
    [kind |-> "w", addr |-> addr, sel |-> _actualAddress(addr), ma |-> memAddr(addr),
     cnt |-> cnt, st |-> st, got |-> 0, off |-> off,
     bytes |-> [j \in 1..cnt |-> Buf(off + j - 1)]]

\* the device after an acknowledged write transaction
Stored(t) ==
    LET new == {DevWritePhys(t.sel, t.ma, j) : j \in 0..(t.cnt - 1)}
    IN  [p \in (DOMAIN mem) \cup new |->
            IF p \in new
            THEN t.bytes[1 + CHOOSE j \in 0..(t.cnt - 1) : DevWritePhys(t.sel, t.ma, j) = p]
            ELSE mem[p]]

_pageBlockFrame(memoryAddress, off, length, incrBuffer) ==
    [addr |-> memoryAddress, len |-> length % UInt16, off |-> off,
     incr |-> incrBuffer, rv |-> 0]

NoPb == _pageBlockFrame(0, 0, 0, FALSE)

NoUb == [addr |-> 0, len |-> 0, off |-> 0, rv |-> 0, cnt |-> 0]

NoRb == [calls |-> << >>, rv |-> 0]

----------------------------------------------------------------------------
\* readBlock

\* variant: the request is never split (the reader before version 0.1.2)
readSplitNever(addr, len) == FALSE

readSplit(addr, len) == addr < BankBoundary /\ (addr + len) > BankBoundary

\* the calls of readBlock that run the loop, in order: the call itself, or the
\* two recursive calls when the request spans the bank boundary
RECURSIVE readCalls(_, _, _)
readCalls(addr, off, len) ==
    IF readSplit(addr, len)
    THEN LET sublen == BankBoundary - addr
         IN  readCalls(addr, off, sublen)
               \o readCalls(BankBoundary, off + sublen, len - sublen)
    ELSE << [addr |-> addr, off |-> off, len |-> len] >>

readCnt(len) == IF I2C_BUFFERSIZE > len THEN len % UInt8 ELSE I2C_BUFFERSIZE

\* _ReadBlock(addr, buffer + off, cnt): st is the status of the address phase,
\* got the number of bytes requestFrom delivered
ReadTxn(addr, off, cnt, st, got) ==
    [kind |-> "r", addr |-> addr, sel |-> _actualAddress(addr), ma |-> memAddr(addr),
     cnt |-> cnt, st |-> st, got |-> got, off |-> off,
     bytes |-> [j \in 1..got |->
                  MemAt(DevReadPhys(_actualAddress(addr), memAddr(addr), j - 1))]]

\* outcomes of one _ReadBlock of cnt bytes: <<status, bytes delivered>>
ReadOutcomes(cnt) ==
    {<<0, cnt>>} \cup
    (IF faults < MaxFaults
     THEN {<<2, 0>>} \cup (IF cnt > 0 THEN {<<0, cnt - 1>>} ELSE {})
     ELSE {})

WriteOutcomes == {0} \cup (IF faults < MaxFaults THEN WriteStatus ELSE {})

\* bytes returned by _ReadBlock
ReadReturn(t) == IF t.st # 0 THEN 0 ELSE t.got

\* variant: every chunk is stored at the start of the destination buffer
FilledAtStart(t) ==
    [i \in (DOMAIN data) \cup {j - 1 : j \in 1..ReadReturn(t)} |->
        IF i < ReadReturn(t) THEN t.bytes[i + 1] ELSE data[i]]

\* the bytes _ReadBlock delivered, stored from buffer + off on
Filled(t) ==
    [i \in (DOMAIN data) \cup {t.off + j - 1 : j \in 1..ReadReturn(t)} |->
        IF i >= t.off /\ i < t.off + ReadReturn(t) THEN t.bytes[i - t.off + 1] ELSE data[i]]

----------------------------------------------------------------------------
\* yield(): the cooperative scheduling points around the data transactions

\* a data transaction is issued
issued(y) == [y EXCEPT !.at = Append(@, y.n)]

yielded(y, times) == [y EXCEPT !.n = @ + times]

\* variant: _WriteBlock returns without yielding
writeBlockYieldsNever(y) == issued(y)

\* _WriteBlock: the transaction, then one yield()
writeBlockYields(y) == yielded(issued(y), 1)

\* _ReadBlock: the transaction, then one yield() for every byte read
readBlockYields(y, t) == yielded(issued(y), ReadReturn(t))

\* the yield() that ends an iteration of the loops of readBlock and updateBlock
loopYield(y) == yielded(y, 1)

----------------------------------------------------------------------------
\* The ready polling of one low-level transaction.  Times are micros() values;
\* the clock does not wrap inside a behaviour.

I2C_WRITEDELAY == 5000

\* delayMicroseconds(50) in the wait loop of _beginTransmission
PollDelay == 50

\* time a zero-length probe takes on the bus
ProbeTime == 1000

\* time a data transaction takes on the bus
TxnTime == 1000

\* low-level transactions per behaviour
MaxTxns == 2

\* the clock of the model stops here
MaxMicros == 60000

\* time the caller spends between two low-level transactions
IdleTimes == {0, 7000}

\* values of _extraTWR (milliseconds)
ExtraTWRs == {0, 1}

waitTime(extraTWR) == I2C_WRITEDELAY + (extraTWR * 1000)

\* variant: the loop test ignores the deadline
withinRecoveryForever(now, lastWrite, extraTWR) == TRUE

\* the while test of both wait loops
withinRecovery(now, lastWrite, extraTWR) == (now - lastWrite) <= waitTime(extraTWR)

\* variant: _lastWrite is recorded only after a write that succeeded
lastWriteIfAcked(kind, st, lastWrite, t) ==
    IF kind = "w" /\ st = 0 THEN t ELSE lastWrite

\* _lastWrite after a transaction that ended at time t with status st
lastWriteAfter(kind, st, lastWrite, t) ==
    IF kind = "w" THEN t ELSE lastWrite

\* the object after begin()
begun(extraTWR) ==
    [pc |-> "idle", kind |-> "none", now |-> 0, lastWrite |-> 0,
     extraTWR |-> extraTWR, entry |-> 0, probes |-> 0, nacks |-> 0,
     delays |-> 0, yields |-> 0, checks |-> 0, st |-> 0, done |-> 0]

----------------------------------------------------------------------------
\* SHT85 heater control.  Times are millis() values.

SHT_HEATER_TIMEOUT == 180000

\* the moments at which the sketch calls the driver
TimePoints == {0, 1, 179999, 180000, 180001, 360001}

\* arguments of setHeatTimeout (seconds)
HeatTimeouts == {0, 1, 200}

\* the object after the constructor; stopAt (time of the last successful
\* heatOff, -1 when there was none), call, ret and cmdOn record the last call
constructed ==
    [now |-> 0, heaterOn |-> FALSE, heaterStart |-> 0, heaterStop |-> 0,
     heatTimeout |-> 0, error |-> "SHT_OK",
     stopAt |-> -1, call |-> "none", ret |-> FALSE, cmdOn |-> FALSE]

\* setHeatTimeout(seconds)
heatTimeoutOf(seconds) == IF seconds > 180 THEN 180 ELSE seconds

\* heatOff(); ok says whether writeCmd(SHT_HEAT_OFF) was acknowledged
heatOffResult(s, ok) ==
    IF ~ok
    THEN [s EXCEPT !.error = "SHT_ERR_HEATER_OFF", !.ret = FALSE]
    ELSE [s EXCEPT !.heaterStop = s.now, !.heaterOn = FALSE, !.ret = TRUE,
                   !.stopAt = s.now]

\* isHeaterOn(); ok is the outcome of the heatOff() it may call
isHeaterOnResult(s, ok) ==
    IF ~s.heaterOn
    THEN [s EXCEPT !.ret = FALSE]
    ELSE IF (s.now - s.heaterStart) < (s.heatTimeout * 1000)
         THEN [s EXCEPT !.ret = TRUE]
         ELSE [heatOffResult(s, ok) EXCEPT !.ret = FALSE]

\* the cool-down test of heatOn()
inCooldown(s) ==
    s.heaterStop > 0 /\ (s.now - s.heaterStop) < SHT_HEATER_TIMEOUT

\* heatOn(); okOff is the outcome of the heatOff() inside isHeaterOn(), okOn
\* whether writeCmd(SHT_HEAT_ON) was acknowledged
heatOnResult(s, okOff, okOn) ==
    LET a == isHeaterOnResult(s, okOff)
    IN  IF a.ret
        THEN [a EXCEPT !.ret = TRUE]
        ELSE IF inCooldown(a)
             THEN [a EXCEPT !.error = "SHT_ERR_HEATER_COOLDOWN", !.ret = FALSE]
             ELSE IF ~okOn
                  THEN [a EXCEPT !.error = "SHT_ERR_HEATER_ON", !.ret = FALSE,
                                 !.cmdOn = TRUE]
                  ELSE [a EXCEPT !.heaterStart = a.now, !.heaterOn = TRUE,
                                 !.ret = TRUE, !.cmdOn = TRUE]

\* a call starts: nothing has been sent yet
called(s, name) == [s EXCEPT !.call = name, !.cmdOn = FALSE]

----------------------------------------------------------------------------
\* FRAM32: a 128K chip that answers on two bus addresses, _address for the
\* lower 64K and _address + 1 for the upper 64K.

FramAddress == 80

\* memory addresses given to the typed calls
FramAddresses == {0, 65535, 65536, 131071}

\* sizes of write8 / write16 / write32
FramSizes == {1, 2, 4}

FramValues(size) ==
    CASE size = 1 -> {0, 165}
      [] size = 2 -> {0, 42330}
      [] size = 4 -> {0, 305419896}

\* typed calls per behaviour
MaxFramOps == 2

\* how the chip keeps the address of a read: one counter per bus address, or
\* one counter for the 16 low address bits whatever bus address set it
Latches == {"perAddress", "shared"}

RECURSIVE Pow256(_)
Pow256(i) == IF i = 0 THEN 1 ELSE 256 * Pow256(i - 1)

\* byte i of the value in memory (the low byte comes first)
ByteOf(v, i) == (v \div Pow256(i)) % 256

RECURSIVE ValueOf(_, _)
ValueOf(bytes, n) ==
    IF n = 0 THEN 0 ELSE ValueOf(bytes, n - 1) + (bytes[n] * Pow256(n - 1))

\* the bus address _writeBlock writes to and _readBlock requests from
framAddr(memaddr) ==
    IF (memaddr \div 65536) % 2 = 1 THEN FramAddress + 1 ELSE FramAddress

\* the bus address _readBlock sets the memory address on
framSetAddr(memaddr) == FramAddress

\* the address counter a bus address uses
Counter(f, dev) == IF f.latch = "shared" THEN FramAddress ELSE dev

FramByte(f, dev, a) ==
    IF <<dev, a>> \in DOMAIN f.mem THEN f.mem[<<dev, a>>] ELSE 0

\* the chip after beginTransmission(dev), two address bytes, the bytes of
\* the value, endTransmission
framWritten(f, dev, a, v, size) ==
    LET cells == {<<dev, (a + i) % 65536>> : i \in 0..(size - 1)}
    IN  [f EXCEPT
           !.mem = [c \in (DOMAIN f.mem) \cup cells |->
                      IF c \in cells
                      THEN ByteOf(v, CHOOSE i \in 0..(size - 1) : c = <<dev, (a + i) % 65536>>)
                      ELSE f.mem[c]],
           !.ptr = [f.ptr EXCEPT ![Counter(f, dev)] = (a + size) % 65536]]

\* the chip after beginTransmission(dev), two address bytes, endTransmission
framAddressed(f, dev, a) ==
    [f EXCEPT !.ptr = [f.ptr EXCEPT ![Counter(f, dev)] = a]]

\* the bytes requestFrom(dev, size) delivers
framFetched(f, dev, size) ==
    [i \in 1..size |-> FramByte(f, dev, (f.ptr[Counter(f, dev)] + i - 1) % 65536)]

\* the object and the chip after begin()
framBegun(latch) ==
    [latch |-> latch, mem |-> << >>,
     ptr |-> [d \in {FramAddress, FramAddress + 1} |-> 0],
     calls |-> << >>]

----------------------------------------------------------------------------
\* M62429: two channels, 0 and 1; channel 2 addresses both.

M62429_MAX_ATTN == 87

\* channel arguments of the calls
Channels == {0, 1, 2, 3}

\* volume arguments of setVolume
Volumes == {0, 3, 128, 255}

\* calls per behaviour
MaxM62429Calls == 4

\* setVolume: attn = (M62429_MAX_ATTN * volume) / 255
attnOf(volume) == (M62429_MAX_ATTN * volume) \div 255

\* the ten data bits D0..D9 that _setAttn clocks out (D0 is bit 0)
databits(channel, attn) ==
    512 + (((attn % UInt8) % 4) * 128)
        + ((((attn % UInt8) \div 4) % 32) * 4)
        + (IF channel = 0 THEN 3 ELSE IF channel = 1 THEN 2 ELSE 0)

\* the chip: D1 clear sets both channels, D1 set the one D0 names (D0 set is
\* the driver's channel 0); D2..D6 and D7..D8 carry the level
latchedLevel(bits) == (((bits \div 4) % 32) * 4) + ((bits \div 128) % 4)

latched(dev, bits) ==
    IF (bits \div 2) % 2 = 0
    THEN [c \in {0, 1} |-> latchedLevel(bits)]
    ELSE [dev EXCEPT ![IF bits % 2 = 1 THEN 0 ELSE 1] = latchedLevel(bits)]

\* _setAttn(channel, attn): the frame is clocked out and latched
_setAttn(s, channel, attn) ==
    [s EXCEPT !.dev = latched(s.dev, databits(channel, attn)), !.sent = @ + 1]

\* variant: setVolume does not look at the mute flag
setVolumeIgnoresMute(s, channel, volume) ==
    IF channel > 2
    THEN [s EXCEPT !.ret = "M62429_CHANNEL_ERROR"]
    ELSE LET t == _setAttn(s, channel, attnOf(volume))
         IN  [t EXCEPT !.ret = "M62429_OK",
                       !.vol = [c \in {0, 1} |->
                                  IF channel = c \/ channel = 2 THEN volume ELSE t.vol[c]]]

setVolumeResult(s, channel, volume) ==
    IF channel > 2
    THEN [s EXCEPT !.ret = "M62429_CHANNEL_ERROR"]
    ELSE IF s.muted
         THEN [s EXCEPT !.ret = "M62429_MUTED"]
         ELSE LET t == _setAttn(s, channel, attnOf(volume))
              IN  [t EXCEPT !.ret = "M62429_OK",
                            !.vol = [c \in {0, 1} |->
                                       IF channel = c \/ channel = 2
                                       THEN volume ELSE t.vol[c]]]

\* one of the two if-blocks of incr and decr: _vol[c] += d; setVolume(c, _vol[c])
stepped(s, c, d) ==
    setVolumeResult([s EXCEPT !.vol[c] = (s.vol[c] + d) % UInt8], c, (s.vol[c] + d) % UInt8)

incrResult(s, channel) ==
    IF channel > 2
    THEN [s EXCEPT !.ret = "M62429_CHANNEL_ERROR"]
    ELSE IF s.muted
         THEN [s EXCEPT !.ret = "M62429_MUTED"]
         ELSE LET a == IF (channel = 0 \/ channel = 2) /\ s.vol[0] < 255
                       THEN stepped(s, 0, 1) ELSE s
                  b == IF (channel = 1 \/ channel = 2) /\ a.vol[1] < 255
                       THEN stepped(a, 1, 1) ELSE a
              IN  [b EXCEPT !.ret = "M62429_OK"]

decrResult(s, channel) ==
    IF channel > 2
    THEN [s EXCEPT !.ret = "M62429_CHANNEL_ERROR"]
    ELSE IF s.muted
         THEN [s EXCEPT !.ret = "M62429_MUTED"]
         ELSE LET a == IF (channel = 0 \/ channel = 2) /\ s.vol[0] > 0
                       THEN stepped(s, 0, 255) ELSE s
                  b == IF (channel = 1 \/ channel = 2) /\ a.vol[1] > 0
                       THEN stepped(a, 1, 255) ELSE a
              IN  [b EXCEPT !.ret = "M62429_OK"]

averageResult(s) ==
    IF s.muted
    THEN [s EXCEPT !.ret = "M62429_MUTED"]
    ELSE [setVolumeResult(s, 2, ((s.vol[0] + s.vol[1]) \div 2) % UInt8)
            EXCEPT !.ret = "M62429_OK"]

\* held keeps the levels the chip had when muteOn silenced it
muteOnResult(s) ==
    IF s.muted
    THEN [s EXCEPT !.ret = "void"]
    ELSE [_setAttn([s EXCEPT !.muted = TRUE, !.held = s.dev], 2, 0) EXCEPT !.ret = "void"]

\* variant: muteOff clears the flag and sends nothing
muteOffFlagOnly(s) ==
    IF ~s.muted
    THEN [s EXCEPT !.ret = "void"]
    ELSE [s EXCEPT !.muted = FALSE, !.ret = "void", !.restored = TRUE]

muteOffResult(s) ==
    IF ~s.muted
    THEN [s EXCEPT !.ret = "void"]
    ELSE LET u == [s EXCEPT !.muted = FALSE, !.restored = TRUE]
             a == IF u.vol[0] > 0 THEN setVolumeResult(u, 0, u.vol[0]) ELSE u
             b == IF a.vol[1] > 0 THEN setVolumeResult(a, 1, a.vol[1]) ELSE a
         IN  [b EXCEPT !.ret = "void"]

\* begin(dataPin, clockPin)
beginResult(s) ==
    [setVolumeResult([s EXCEPT !.muted = FALSE], 2, 0) EXCEPT !.ret = "void"]

\* a call starts: nothing has been clocked out yet
entered(s, name, channel) ==
    [s EXCEPT !.call = [name |-> name, channel |-> channel],
              !.sent = 0, !.restored = FALSE, !.n = @ + 1]

\* the object and the chip after the first begin()
m62429Begun ==
    [vol |-> [c \in {0, 1} |-> 0], muted |-> FALSE, dev |-> [c \in {0, 1} |-> 0],
     held |-> [c \in {0, 1} |-> 0], restored |-> FALSE, sent |-> 1,
     call |-> [name |-> "begin", channel |-> 2], ret |-> "void", n |-> 0]

----------------------------------------------------------------------------
\* Initial state: the device holds some image, no call is running

EepromInit ==
    /\ pc = "idle"
    /\ op = [name |-> "none", addr |-> 0, len |-> 0, buf |-> "const", val |-> 0]
    /\ image \in Images
    /\ mem = << >>
    /\ bus = << >>
    /\ faults = 0
    /\ pb = NoPb
    /\ rb = NoRb
    /\ ub = NoUb
    /\ data = << >>
    /\ rv = 0
    /\ verified = FALSE
    /\ yld = [n |-> 0, at |-> << >>]

Init ==
    /\ EepromInit
    /\ gate = begun(0)
    /\ sht = constructed
    /\ fram = framBegun("perAddress")
    /\ m62429 = m62429Begun

----------------------------------------------------------------------------
\* Public calls

writeBlock ==
    /\ pc = "idle"
    /\ \E a \in Addresses, n \in Lengths \cup LongLengths, b \in BufKinds :
          /\ op' = [name |-> "writeBlock", addr |-> a, len |-> n, buf |-> b, val |-> 0]
          /\ pb' = _pageBlockFrame(a, 0, n, TRUE)
    /\ pc' = "pageBlock"
    /\ UNCHANGED <<image, mem, bus, faults, rb, ub, data, rv, verified, yld>>
    /\ UNCHANGED others

setBlock ==
    /\ pc = "idle"
    /\ \E a \in Addresses, n \in Lengths \cup LongLengths \cup FillLengths, v \in Values :
          /\ op' = [name |-> "setBlock", addr |-> a, len |-> n, buf |-> "const", val |-> v]
          /\ pb' = _pageBlockFrame(a, 0, n, FALSE)
    /\ pc' = "pageBlock"
    /\ UNCHANGED <<image, mem, bus, faults, rb, ub, data, rv, verified, yld>>
    /\ UNCHANGED others

readBlock ==
    /\ pc = "idle"
    /\ \E a \in Addresses, n \in Lengths :
          /\ op' = [name |-> "readBlock", addr |-> a, len |-> n, buf |-> "const", val |-> 0]
          /\ rb' = [calls |-> readCalls(a, 0, n), rv |-> 0]
    /\ pc' = "readBlock"
    /\ UNCHANGED <<image, mem, bus, faults, pb, ub, data, rv, verified, yld>>
    /\ UNCHANGED others

updateBlock ==
    /\ pc = "idle"
    /\ \E a \in Addresses, n \in Lengths, b \in BufKinds :
          /\ op' = [name |-> "updateBlock", addr |-> a, len |-> n, buf |-> b, val |-> 0]
          /\ ub' = [addr |-> a, len |-> n, off |-> 0, rv |-> 0, cnt |-> 0]
    /\ pc' = "updateBlock"
    /\ UNCHANGED <<image, mem, bus, faults, pb, rb, data, rv, verified, yld>>
    /\ UNCHANGED others

writeBlockVerify ==
    /\ pc = "idle"
    /\ \E c \in (Addresses \X Lengths \X BufKinds) \cup Scenario300 :
          /\ op' = [name |-> "writeBlockVerify", addr |-> c[1], len |-> c[2],
                    buf |-> c[3], val |-> 0]
          /\ pb' = _pageBlockFrame(c[1], 0, c[2], TRUE)
    /\ pc' = "pageBlock"
    /\ UNCHANGED <<image, mem, bus, faults, rb, ub, data, rv, verified, yld>>
    /\ UNCHANGED others

----------------------------------------------------------------------------
\* _pageBlock: one iteration of its loop is one _WriteBlock transaction

\* the locals of _pageBlock after a chunk of cnt bytes ended with status st
pageBlockAfter(f, cnt, st) ==
    IF st # 0
    THEN [f EXCEPT !.rv = st]
    ELSE [f EXCEPT !.addr = f.addr + cnt,
                   !.off  = IF f.incr THEN f.off + cnt ELSE f.off,
                   !.len  = (f.len - cnt) % UInt16]

pageBlockStep ==
    /\ pc = "pageBlock"
    /\ pageBlockRuns(pb.len, pb.rv)
    /\ \E st \in WriteOutcomes :
          LET cnt == pageCnt(pb.addr, pb.len)
              t   == WriteTxn(pb.addr, pb.off, cnt, st)
          IN  /\ bus' = Append(bus, t)
              /\ mem' = IF st = 0 THEN Stored(t) ELSE mem
              /\ faults' = IF st = 0 THEN faults ELSE faults + 1
              /\ pb' = pageBlockAfter(pb, cnt, st)
    /\ yld' = writeBlockYields(yld)
    /\ UNCHANGED <<pc, op, image, rb, ub, data, rv, verified>>
    /\ UNCHANGED others

\* writeBlock and setBlock return what _pageBlock returned
writeBlockReturn ==
    /\ pc = "pageBlock"
    /\ op.name \in {"writeBlock", "setBlock"}
    /\ ~pageBlockRuns(pb.len, pb.rv)
    /\ rv' = pb.rv
    /\ pc' = "done"
    /\ UNCHANGED <<op, image, mem, bus, faults, pb, rb, ub, data, verified, yld>>
    /\ UNCHANGED others

----------------------------------------------------------------------------
\* readBlock: one iteration of its loop is one _ReadBlock transaction

readBlockStep ==
    /\ pc = "readBlock"
    /\ rb.calls # << >>
    /\ Head(rb.calls).len > 0
    /\ LET c   == Head(rb.calls)
           cnt == readCnt(c.len)
       IN  \E o \in ReadOutcomes(cnt) :
              LET t == ReadTxn(c.addr, c.off, cnt, o[1], o[2])
              IN  /\ bus' = Append(bus, t)
                  /\ data' = Filled(t)
                  /\ faults' = IF ReadReturn(t) = cnt THEN faults ELSE faults + 1
                  /\ rb' = [calls |-> << [addr |-> c.addr + cnt,
                                          off  |-> c.off + cnt,
                                          len  |-> c.len - cnt] >> \o Tail(rb.calls),
                            rv    |-> rb.rv + ReadReturn(t)]
                  /\ yld' = loopYield(readBlockYields(yld, t))
    /\ UNCHANGED <<pc, op, image, mem, pb, ub, rv, verified>>
    /\ UNCHANGED others

\* the first recursive call returns, the second one starts
readBlockNext ==
    /\ pc = "readBlock"
    /\ Len(rb.calls) > 1
    /\ Head(rb.calls).len = 0
    /\ rb' = [rb EXCEPT !.calls = Tail(rb.calls)]
    /\ UNCHANGED <<pc, op, image, mem, bus, faults, pb, ub, data, rv, verified, yld>>
    /\ UNCHANGED others

readBlockReturn ==
    /\ pc = "readBlock"
    /\ op.name = "readBlock"
    /\ Len(rb.calls) = 1
    /\ Head(rb.calls).len = 0
    /\ rv' = rb.rv
    /\ pc' = "done"
    /\ UNCHANGED <<op, image, mem, bus, faults, pb, rb, ub, data, verified, yld>>
    /\ UNCHANGED others

----------------------------------------------------------------------------
\* updateBlock: read a chunk, compare, write it when it differs

\* memcmp(buffer, buf, cnt) != 0, buf being the local array _ReadBlock filled:
\* the bytes it did not deliver are uninitialised, garbageEq says whether they
\* happen to equal the requested ones
memcmpDiffers(t, garbageEq) ==
    \/ \E j \in 1..ReadReturn(t) : t.bytes[j] # Buf(t.off + j - 1)
    \/ ReadReturn(t) < t.cnt /\ ~garbageEq

\* variant: every chunk is written, whatever the comparison says
updateWritesAlways(t, garbageEq) == TRUE

\* whether updateBlock writes the chunk it compared
updateWrites(t, garbageEq) == memcmpDiffers(t, garbageEq)

updateAdvance(f, cnt) ==
    [f EXCEPT !.addr = f.addr + cnt,
              !.off  = f.off + cnt,
              !.len  = f.len - cnt]

updateBlockStep ==
    /\ pc = "updateBlock"
    /\ ub.len > 0
    /\ LET cnt == readCnt(ub.len)
       IN  \E o \in ReadOutcomes(cnt), garbageEq \in BOOLEAN :
              LET t == ReadTxn(ub.addr, ub.off, cnt, o[1], o[2])
                  u == [ub EXCEPT !.rv = ub.rv + ReadReturn(t), !.cnt = cnt]
              IN  /\ (ReadReturn(t) = cnt => garbageEq)
                  /\ bus' = Append(bus, t)
                  /\ faults' = IF ReadReturn(t) = cnt THEN faults ELSE faults + 1
                  /\ IF updateWrites(t, garbageEq)
                     THEN /\ pb' = _pageBlockFrame(ub.addr, ub.off, cnt, TRUE)
                          /\ ub' = u
                          /\ pc' = "pageBlock"
                          /\ yld' = readBlockYields(yld, t)
                     ELSE /\ ub' = updateAdvance(u, cnt)
                          /\ yld' = loopYield(readBlockYields(yld, t))
                          /\ UNCHANGED <<pb, pc>>
    /\ UNCHANGED <<op, image, mem, rb, data, rv, verified>>
    /\ UNCHANGED others

\* _pageBlock returns into the loop of updateBlock: its result is dropped
updateBlockWritten ==
    /\ pc = "pageBlock"
    /\ op.name = "updateBlock"
    /\ ~pageBlockRuns(pb.len, pb.rv)
    /\ ub' = updateAdvance(ub, ub.cnt)
    /\ pc' = "updateBlock"
    /\ yld' = loopYield(yld)
    /\ UNCHANGED <<op, image, mem, bus, faults, pb, rb, data, rv, verified>>
    /\ UNCHANGED others

updateBlockReturn ==
    /\ pc = "updateBlock"
    /\ ub.len = 0
    /\ rv' = ub.rv
    /\ pc' = "done"
    /\ UNCHANGED <<op, image, mem, bus, faults, pb, rb, ub, data, verified, yld>>
    /\ UNCHANGED others

----------------------------------------------------------------------------
\* writeBlockVerify: writeBlock, then readBlock and memcmp

\* memcmp(data, buffer, length) == 0
dataEqual(length) ==
    \A i \in 0..(length - 1) : i \in DOMAIN data /\ data[i] = Buf(i)

\* variant: the number of bytes read back is not checked
verifyResultNoCount(readRv, length) ==
    \A i \in DOMAIN data : data[i] = Buf(i)

verifyResult(readRv, length) ==
    IF readRv # length THEN FALSE ELSE dataEqual(length)

verifyWriteFailed ==
    /\ pc = "pageBlock"
    /\ op.name = "writeBlockVerify"
    /\ ~pageBlockRuns(pb.len, pb.rv)
    /\ pb.rv # 0
    /\ verified' = FALSE
    /\ pc' = "done"
    /\ UNCHANGED <<op, image, mem, bus, faults, pb, rb, ub, data, rv, yld>>
    /\ UNCHANGED others

verifyWritten ==
    /\ pc = "pageBlock"
    /\ op.name = "writeBlockVerify"
    /\ ~pageBlockRuns(pb.len, pb.rv)
    /\ pb.rv = 0
    /\ rb' = [calls |-> readCalls(op.addr, 0, op.len), rv |-> 0]
    /\ pc' = "readBlock"
    /\ UNCHANGED <<op, image, mem, bus, faults, pb, ub, data, rv, verified, yld>>
    /\ UNCHANGED others

verifyReturn ==
    /\ pc = "readBlock"
    /\ op.name = "writeBlockVerify"
    /\ Len(rb.calls) = 1
    /\ Head(rb.calls).len = 0
    /\ verified' = verifyResult(rb.rv, op.len)
    /\ pc' = "done"
    /\ UNCHANGED <<op, image, mem, bus, faults, pb, rb, ub, data, rv, yld>>
    /\ UNCHANGED others

----------------------------------------------------------------------------

Next ==
    \/ writeBlock
    \/ setBlock
    \/ readBlock
    \/ updateBlock
    \/ writeBlockVerify
    \/ pageBlockStep
    \/ writeBlockReturn
    \/ readBlockStep
    \/ readBlockNext
    \/ readBlockReturn
    \/ updateBlockStep
    \/ updateBlockWritten
    \/ updateBlockReturn
    \/ verifyWriteFailed
    \/ verifyWritten
    \/ verifyReturn

Spec == Init /\ [][Next]_vars

----------------------------------------------------------------------------
\* _WriteBlock and _ReadBlock step by step: _waitEEReady, the wait loop of
\* _beginTransmission, then the data transaction.  The device answers each
\* probe as it likes.

\* _WriteBlock or _ReadBlock is called, some time after the previous one
lowLevelCall ==
    /\ gate.pc = "idle"
    /\ gate.done < MaxTxns
    /\ \E k \in {"w", "r"}, d \in IdleTimes :
          gate' = [gate EXCEPT !.pc = "waitEEReady", !.kind = k,
                               !.now = gate.now + d, !.entry = gate.now + d,
                               !.probes = 0, !.nacks = 0, !.delays = 0,
                               !.yields = 0, !.checks = 0]
    /\ UNCHANGED gateOthers

\* one iteration of the loop of _waitEEReady
waitEEReadyProbe ==
    /\ gate.pc = "waitEEReady"
    /\ gate.now < MaxMicros
    /\ withinRecovery(gate.now, gate.lastWrite, gate.extraTWR)
    /\ \E ack \in BOOLEAN :
          gate' = IF ack
                  THEN [gate EXCEPT !.pc = "beginTransmission",
                                    !.now = gate.now + ProbeTime,
                                    !.probes = @ + 1, !.checks = @ + 1]
                  ELSE [gate EXCEPT !.now = gate.now + ProbeTime,
                                    !.probes = @ + 1, !.checks = @ + 1,
                                    !.nacks = @ + 1, !.yields = @ + 1]
    /\ UNCHANGED gateOthers

\* the loop test of _waitEEReady fails
waitEEReadyElapsed ==
    /\ gate.pc = "waitEEReady"
    /\ ~withinRecovery(gate.now, gate.lastWrite, gate.extraTWR)
    /\ gate' = [gate EXCEPT !.pc = "beginTransmission", !.checks = @ + 1]
    /\ UNCHANGED gateOthers

\* one iteration of the wait loop of _beginTransmission
beginTransmissionProbe ==
    /\ gate.pc = "beginTransmission"
    /\ gate.now < MaxMicros
    /\ withinRecovery(gate.now, gate.lastWrite, gate.extraTWR)
    /\ \E ack \in BOOLEAN :
          gate' = IF ack
                  THEN [gate EXCEPT !.pc = "data",
                                    !.now = gate.now + ProbeTime,
                                    !.probes = @ + 1, !.checks = @ + 1]
                  ELSE [gate EXCEPT !.now = gate.now + ProbeTime + PollDelay,
                                    !.probes = @ + 1, !.checks = @ + 1,
                                    !.nacks = @ + 1, !.yields = @ + 1,
                                    !.delays = @ + 1]
    /\ UNCHANGED gateOthers

\* the loop test of _beginTransmission fails
beginTransmissionElapsed ==
    /\ gate.pc = "beginTransmission"
    /\ ~withinRecovery(gate.now, gate.lastWrite, gate.extraTWR)
    /\ gate' = [gate EXCEPT !.pc = "data", !.checks = @ + 1]
    /\ UNCHANGED gateOthers

\* the data transaction; a write records its end in _lastWrite
dataTransaction ==
    /\ gate.pc = "data"
    /\ \E st \in {0, 2} :
          gate' = [gate EXCEPT !.pc = "idle", !.st = st,
                               !.now = gate.now + TxnTime,
                               !.lastWrite = lastWriteAfter(gate.kind, st, gate.lastWrite,
                                                            gate.now + TxnTime),
                               !.done = @ + 1]
    /\ UNCHANGED gateOthers

InitGate ==
    /\ EepromInit
    /\ image = "erased"
    /\ \E x \in ExtraTWRs : gate = begun(x)
    /\ sht = constructed
    /\ fram = framBegun("perAddress")
    /\ m62429 = m62429Begun

NextGate ==
    \/ lowLevelCall
    \/ waitEEReadyProbe
    \/ waitEEReadyElapsed
    \/ beginTransmissionProbe
    \/ beginTransmissionElapsed
    \/ dataTransaction

\* the bus primitives return and the caller runs on
SpecGate == InitGate /\ [][NextGate]_vars /\ WF_vars(NextGate)

----------------------------------------------------------------------------
\* SHT85: the sketch calls the heater functions at the time points

\* time passes between two calls
shtTick ==
    /\ \E t \in TimePoints :
          /\ t > sht.now
          /\ sht' = [called(sht, "none") EXCEPT !.now = t]
    /\ UNCHANGED shtOthers

setHeatTimeout ==
    /\ \E seconds \in HeatTimeouts :
          sht' = [called(sht, "setHeatTimeout") EXCEPT !.heatTimeout = heatTimeoutOf(seconds)]
    /\ UNCHANGED shtOthers

heatOn ==
    /\ \E okOff \in BOOLEAN, okOn \in BOOLEAN :
          sht' = heatOnResult(called(sht, "heatOn"), okOff, okOn)
    /\ UNCHANGED shtOthers

heatOff ==
    /\ \E ok \in BOOLEAN :
          sht' = heatOffResult(called(sht, "heatOff"), ok)
    /\ UNCHANGED shtOthers

isHeaterOn ==
    /\ \E ok \in BOOLEAN :
          sht' = isHeaterOnResult(called(sht, "isHeaterOn"), ok)
    /\ UNCHANGED shtOthers

InitSHT ==
    /\ EepromInit
    /\ image = "erased"
    /\ gate = begun(0)
    /\ sht = constructed
    /\ fram = framBegun("perAddress")
    /\ m62429 = m62429Begun

NextSHT ==
    \/ shtTick
    \/ setHeatTimeout
    \/ heatOn
    \/ heatOff
    \/ isHeaterOn

SpecSHT == InitSHT /\ [][NextSHT]_vars

----------------------------------------------------------------------------
\* FRAM32: write8 / write16 / write32 and read8 / read16 / read32

\* _writeBlock(memaddr, &val, size)
framWrite ==
    /\ Len(fram.calls) < MaxFramOps
    /\ \E m \in FramAddresses, size \in FramSizes :
          \E v \in FramValues(size) :
              LET dev == framAddr(m)
                  f   == framWritten(fram, dev, m % 65536, v, size)
              IN  fram' = [f EXCEPT !.calls =
                             Append(@, [name |-> "write", m |-> m, size |-> size,
                                        val |-> v, setOn |-> dev, dataOn |-> dev])]
    /\ UNCHANGED framOthers

\* _readBlock(memaddr, &val, size)
framRead ==
    /\ Len(fram.calls) < MaxFramOps
    /\ \E m \in FramAddresses, size \in FramSizes :
          LET dev   == framAddr(m)
              f     == framAddressed(fram, framSetAddr(m), m % 65536)
              bytes == framFetched(f, dev, size)
              g     == [f EXCEPT !.ptr = [f.ptr EXCEPT ![Counter(f, dev)] =
                                            (f.ptr[Counter(f, dev)] + size) % 65536]]
          IN  fram' = [g EXCEPT !.calls =
                         Append(@, [name |-> "read", m |-> m, size |-> size,
                                    val |-> ValueOf(bytes, size),
                                    setOn |-> framSetAddr(m), dataOn |-> dev])]
    /\ UNCHANGED framOthers

InitFRAM ==
    /\ EepromInit
    /\ image = "erased"
    /\ gate = begun(0)
    /\ sht = constructed
    /\ \E l \in Latches : fram = framBegun(l)
    /\ m62429 = m62429Begun

NextFRAM ==
    \/ framWrite
    \/ framRead

SpecFRAM == InitFRAM /\ [][NextFRAM]_vars

----------------------------------------------------------------------------
\* M62429: the sketch calls the volume functions

m62429Begin ==
    /\ m62429.n < MaxM62429Calls
    /\ m62429' = beginResult(entered(m62429, "begin", 2))
    /\ UNCHANGED m62429Others

setVolume ==
    /\ m62429.n < MaxM62429Calls
    /\ \E channel \in Channels, volume \in Volumes :
          m62429' = setVolumeResult(entered(m62429, "setVolume", channel), channel, volume)
    /\ UNCHANGED m62429Others

incr ==
    /\ m62429.n < MaxM62429Calls
    /\ \E channel \in Channels :
          m62429' = incrResult(entered(m62429, "incr", channel), channel)
    /\ UNCHANGED m62429Others

decr ==
    /\ m62429.n < MaxM62429Calls
    /\ \E channel \in Channels :
          m62429' = decrResult(entered(m62429, "decr", channel), channel)
    /\ UNCHANGED m62429Others

average ==
    /\ m62429.n < MaxM62429Calls
    /\ m62429' = averageResult(entered(m62429, "average", 2))
    /\ UNCHANGED m62429Others

muteOn ==
    /\ m62429.n < MaxM62429Calls
    /\ m62429' = muteOnResult(entered(m62429, "muteOn", 2))
    /\ UNCHANGED m62429Others

muteOff ==
    /\ m62429.n < MaxM62429Calls
    /\ m62429' = muteOffResult(entered(m62429, "muteOff", 2))
    /\ UNCHANGED m62429Others

InitM62429 ==
    /\ EepromInit
    /\ image = "erased"
    /\ gate = begun(0)
    /\ sht = constructed
    /\ fram = framBegun("perAddress")
    /\ m62429 = m62429Begun

NextM62429 ==
    \/ m62429Begin
    \/ setVolume
    \/ incr
    \/ decr
    \/ average
    \/ muteOn
    \/ muteOff

SpecM62429 == InitM62429 /\ [][NextM62429]_vars

----------------------------------------------------------------------------
\* Reading the bus log

Writes == {k \in DOMAIN bus : bus[k].kind = "w"}

Reads == {k \in DOMAIN bus : bus[k].kind = "r"}

\* the logical addresses a transaction was asked to transfer
Range(t) == {t.addr + j : j \in 0..(t.cnt - 1)}

\* the compare read of updateBlock that precedes transaction k
LastRead(k) == CHOOSE r \in Reads : r < k /\ \A q \in Reads : q < k => q <= r

\* start address and length of the _pageBlock call that issued write k
PageCallStart(k) ==
    IF op.name = "updateBlock" THEN bus[LastRead(k)].addr ELSE op.addr

PageCallLength(k) ==
    IF op.name = "updateBlock" THEN bus[LastRead(k)].cnt ELSE op.len % UInt16

\* bytes of that call not yet written when write k was issued
Remaining(k) == PageCallLength(k) - (bus[k].addr - PageCallStart(k))

Page(a) == a \div I2C_PAGESIZE_24LC1025

Bank(a) == a \div BankBoundary

----------------------------------------------------------------------------
\* C1: every write transaction issued through _pageBlock carries
\* cnt = min(remaining bytes, I2C_BUFFERSIZE, pageSize - addr mod pageSize)
\* bytes, so its range lies inside one page and on one side of 0x10000.
C1_WriteChunkInsidePage ==
    \A k \in Writes :
        LET t == bus[k]
        IN  /\ t.cnt = Min(Remaining(k),
                           Min(I2C_BUFFERSIZE,
                               I2C_PAGESIZE_24LC1025 - (t.addr % I2C_PAGESIZE_24LC1025)))
            /\ t.cnt >= 1
            /\ Page(t.addr) = Page(t.addr + t.cnt - 1)
            /\ Bank(t.addr) = Bank(t.addr + t.cnt - 1)

\* a chunk cut short by the page boundary that is also the bank boundary
C1_Witness ==
    \E k \in Writes :
        /\ bus[k].addr + bus[k].cnt = BankBoundary
        /\ bus[k].cnt < I2C_BUFFERSIZE
        /\ bus[k].cnt < Remaining(k)

----------------------------------------------------------------------------
\* C2: when every bus transaction succeeds, writeBlock(a, buf, n) returns 0 and
\* leaves byte a+i of the device equal to buf[i] for every i in [0, n), and no
\* byte outside [a, a+n) changed.
C2_WriteBlockImage ==
    (pc = "done" /\ op.name = "writeBlock" /\ faults = 0) =>
        /\ rv = 0
        /\ \A i \in 0..(op.len - 1) : MemAt(Phys(op.addr + i)) = Buf(i)
        /\ \A p \in DOMAIN mem :
              (p < op.addr \/ p >= op.addr + op.len) => mem[p] = Image(p)

\* the same for the lengths that fit the 16-bit parameter of _pageBlock
WriteBlockImageShort ==
    (pc = "done" /\ op.name = "writeBlock" /\ faults = 0 /\ op.len < UInt16) =>
        /\ rv = 0
        /\ \A i \in 0..(op.len - 1) : MemAt(Phys(op.addr + i)) = Buf(i)
        /\ \A p \in DOMAIN mem :
              (p < op.addr \/ p >= op.addr + op.len) => mem[p] = Image(p)

----------------------------------------------------------------------------
\* C3: a readBlock request spanning 0x10000 is split into exactly the two
\* sub-reads [addr, 0x10000) and [0x10000, addr+len); no read transaction of
\* readBlock crosses 0x10000 and each goes to the select address of the bank
\* its bytes live in.
ReadOps == {"readBlock", "writeBlockVerify"}

Spans(a, n) == a < BankBoundary /\ a + n > BankBoundary

C3_ReadSplitAtBank ==
    op.name \in ReadOps =>
        /\ \A k \in Reads :
              \A m \in Range(bus[k]) :
                  /\ Bank(m) = Bank(bus[k].addr)
                  /\ BankOf(bus[k].sel) = Bank(m)
                  /\ DevReadPhys(bus[k].sel, bus[k].ma, m - bus[k].addr) = Phys(m)
        /\ (pc = "readBlock" /\ Reads = {} /\ Spans(op.addr, op.len)) =>
              rb.calls = << [addr |-> op.addr, off |-> 0, len |-> BankBoundary - op.addr],
                            [addr |-> BankBoundary, off |-> BankBoundary - op.addr,
                             len |-> op.addr + op.len - BankBoundary] >>
        /\ (pc = "done" /\ Spans(op.addr, op.len) /\ Reads # {}) =>
              /\ \E k \in Reads : bus[k].addr + bus[k].cnt = BankBoundary
              /\ \E k \in Reads : bus[k].addr = BankBoundary
              /\ UNION {Range(bus[k]) : k \in Reads}
                    = {op.addr + i : i \in 0..(op.len - 1)}

\* a finished readBlock over the boundary: one read ends at 0x10000, the next
\* starts there on the other select address
C3_Witness ==
    /\ pc = "done"
    /\ op.name = "readBlock"
    /\ Spans(op.addr, op.len)
    /\ \E k \in Reads :
          /\ k + 1 \in Reads
          /\ bus[k].addr + bus[k].cnt = BankBoundary
          /\ bus[k + 1].addr = BankBoundary
          /\ bus[k].sel # bus[k + 1].sel

----------------------------------------------------------------------------
\* C4: a multi-chunk write (writeBlock, setBlock) returns 0 only if every chunk
\* returned status 0; otherwise it returns the status of the first failing
\* chunk, no write transaction follows that chunk, and the chunks written
\* before it stay in the device.
WriteOps == {"writeBlock", "setBlock"}

C4_FirstFailureAborts ==
    op.name \in WriteOps =>
        /\ \A k \in Writes : bus[k].st # 0 => k = Len(bus)
        /\ \A k \in Writes :
              bus[k].st = 0 =>
                  \A m \in Range(bus[k]) : MemAt(Phys(m)) = bus[k].bytes[m - bus[k].addr + 1]
        /\ pc = "done" =>
              /\ (rv = 0 <=> \A k \in Writes : bus[k].st = 0)
              /\ \A k \in Writes : bus[k].st # 0 => rv = bus[k].st

\* a write that failed after an earlier chunk had been stored
C4_Witness ==
    /\ pc = "done"
    /\ op.name \in WriteOps
    /\ rv # 0
    /\ Len(bus) >= 2
    /\ bus[1].st = 0
    /\ \E m \in Range(bus[1]) : MemAt(Phys(m)) # Image(Phys(m))

----------------------------------------------------------------------------
\* C5: updateBlock(a, buf, n) issues no write transaction when the device
\* already holds buf in [a, a+n), also when the region straddles a page
\* boundary or 0x10000, and the memory is unchanged afterwards.  Stated for
\* runs in which every bus transaction succeeds.
C5_UpdateNoOp ==
    (op.name = "updateBlock" /\ op.buf = "same" /\ faults = 0) =>
        /\ Writes = {}
        /\ \A p \in DOMAIN mem : mem[p] = Image(p)

----------------------------------------------------------------------------
\* C6: writeBlockVerify(a, buf, n) returns true exactly when the write
\* returned status 0, the read-back delivered n bytes and every byte read back
\* equals the corresponding byte of buf.
BytesReadBack == [k \in Reads |-> ReadReturn(bus[k])]

RECURSIVE SumTo(_, _)
SumTo(f, k) == IF k = 0 THEN 0 ELSE SumTo(f, k - 1) + (IF k \in DOMAIN f THEN f[k] ELSE 0)

ReadBackMatches ==
    \A k \in Reads :
        \A j \in 1..ReadReturn(bus[k]) : bus[k].bytes[j] = Buf(bus[k].off + j - 1)

C6_WitnessShort ==
    /\ pc = "done"
    /\ op.name = "writeBlockVerify"
    /\ ~verified
    /\ \A k \in Writes : bus[k].st = 0
    /\ SumTo(BytesReadBack, Len(bus)) < op.len

----------------------------------------------------------------------------
\* C7: setBlock(addr, value, length) fills exactly length bytes for an
\* arbitrary 32-bit length: after it returns 0 every one of the length bytes
\* from addr on equals value (which is what readBlock then delivers).
C7_SetBlockFillsLength ==
    (pc = "done" /\ op.name = "setBlock" /\ rv = 0) =>
        \A i \in 0..(op.len - 1) : MemAt(Phys(op.addr + i)) = op.val

\* the same for the lengths that fit the 16-bit parameter of _pageBlock
SetBlockFillsShort ==
    (pc = "done" /\ op.name = "setBlock" /\ rv = 0 /\ op.len < UInt16) =>
        \A i \in 0..(op.len - 1) : MemAt(Phys(op.addr + i)) = op.val

----------------------------------------------------------------------------
\* C8: no compare read of updateBlock has an address range that crosses the
\* bank boundary 0x10000.  Stated for runs in which every bus transaction
\* succeeds.
C8_UpdateReadInsideBank ==
    (op.name = "updateBlock" /\ faults = 0) =>
        \A k \in Reads :
            bus[k].cnt > 0 => Bank(bus[k].addr) = Bank(bus[k].addr + bus[k].cnt - 1)

----------------------------------------------------------------------------
\* C9: updateBlock writes back only the bytes that differ: a position whose
\* stored byte already equals the requested byte is in no write transaction
\* of updateBlock.  Stated for runs in which every bus transaction succeeds
\* and the region lies on one side of 0x10000.
C9_UpdateWritesOnlyDifferingBytes ==
    (op.name = "updateBlock" /\ faults = 0 /\ ~Spans(op.addr, op.len)) =>
        \A k \in Writes :
            \A m \in Range(bus[k]) :
                Image(Phys(m)) # bus[k].bytes[m - bus[k].addr + 1]

\* C9 as amended: updateBlock writes back only the chunks that differ.  Every
\* write transaction lies inside the compare chunk read just before it, and
\* that read was short or delivered at least one byte that differs from the
\* requested one; a chunk read back in full and equal is not written.
ReadInFull(t) == ReadReturn(t) = t.cnt

ReadEqual(t) == \A j \in 1..ReadReturn(t) : t.bytes[j] = Buf(t.off + j - 1)

C9_UpdateWritesOnlyDifferingChunks ==
    op.name = "updateBlock" =>
        \A k \in Writes :
            /\ \E r \in Reads : r < k
            /\ Range(bus[k]) \subseteq Range(bus[LastRead(k)])
            /\ ~(ReadInFull(bus[LastRead(k)]) /\ ReadEqual(bus[LastRead(k)]))

\* one chunk differed and was written, the next was equal and was not
C9_Witness ==
    /\ pc = "done"
    /\ op.name = "updateBlock"
    /\ faults = 0
    /\ Writes # {}
    /\ bus[Len(bus)].kind = "r"
    /\ ReadInFull(bus[Len(bus)])
    /\ ReadEqual(bus[Len(bus)])

----------------------------------------------------------------------------
\* C10: a bus failure shows in the return value of the failing call: when a
\* write transaction inside updateBlock returns a non-zero status, the value
\* updateBlock returns differs from length.
C10_UpdateSurfacesWriteFailure ==
    (pc = "done" /\ op.name = "updateBlock" /\ \E k \in Writes : bus[k].st # 0) =>
        rv # op.len

----------------------------------------------------------------------------
\* C11: readBlock returns the sum of the bytes its chunks delivered: the
\* requested length exactly when every chunk was delivered in full, less
\* otherwise.  A failed chunk does not stop the chunks after it, and the bytes
\* of every chunk are stored at the chunk's own offset (chunk address minus
\* start address).
C11_ReadBlockSumsChunks ==
    op.name = "readBlock" =>
        /\ \A k \in Reads :
              /\ bus[k].off = bus[k].addr - op.addr
              /\ \A j \in 1..ReadReturn(bus[k]) :
                    /\ (bus[k].off + j - 1) \in DOMAIN data
                    /\ data[bus[k].off + j - 1] = bus[k].bytes[j]
        /\ pc = "done" =>
              /\ rv = SumTo(BytesReadBack, Len(bus))
              /\ (rv = op.len <=> \A k \in Reads : ReadInFull(bus[k]))
              /\ rv <= op.len
              /\ UNION {Range(bus[k]) : k \in Reads}
                    = {op.addr + i : i \in 0..(op.len - 1)}

\* a chunk failed, the chunk after it was delivered and stored at its offset,
\* and the call returned less than the length
C11_Witness ==
    /\ pc = "done"
    /\ op.name = "readBlock"
    /\ rv < op.len
    /\ rv > 0
    /\ \E k \in Reads :
          /\ ReadReturn(bus[k]) = 0
          /\ k + 1 \in Reads
          /\ ReadInFull(bus[k + 1])
          /\ bus[k + 1].off > 0
          /\ data[bus[k + 1].off] = bus[k + 1].bytes[1]

----------------------------------------------------------------------------
\* C12: for every logical address m the select address is deviceAddress | 0x04
\* when m >= 0x10000 and deviceAddress otherwise, the two address bytes are the
\* high and the low byte of m mod 0x10000, and the data phase of a read
\* delivers the bytes of the bank the address phase selected.
ResolveSamples == {0, 1, 255, 256, 65535, 65536, 65537, 131071, 131072, 2147483647}

Resolved(m) ==
    /\ _actualAddress(m) = (IF m >= 65536 THEN DeviceAddress + 4 ELSE DeviceAddress)
    /\ (highByte(m) * 256) + lowByte(m) = m % 65536
    /\ highByte(m) \in 0..255
    /\ lowByte(m) \in 0..255

C12_AddressResolution ==
    /\ \A m \in ResolveSamples : Resolved(m)
    /\ \A k \in DOMAIN bus :
          /\ Resolved(bus[k].addr)
          /\ bus[k].sel = _actualAddress(bus[k].addr)
          /\ bus[k].ma = (highByte(bus[k].addr) * 256) + lowByte(bus[k].addr)
    /\ op.name \in ReadOps =>
          \A k \in Reads :
              \A j \in 1..ReadReturn(bus[k]) :
                  bus[k].bytes[j] =
                      MemAt((IF bus[k].addr >= 65536 THEN 65536 ELSE 0)
                              + (((bus[k].addr % 65536) + j - 1) % 65536))

\* a read of the upper bank that delivered its bytes
C12_Witness ==
    /\ op.name = "readBlock"
    /\ \E k \in Reads :
          /\ bus[k].addr >= BankBoundary
          /\ bus[k].sel = 84
          /\ ReadReturn(bus[k]) > 0
          /\ bus[k].bytes[1] = Image(bus[k].addr)

----------------------------------------------------------------------------
\* C18: every iteration of the chunk loops of _pageBlock, readBlock and
\* updateBlock transfers at least one byte (pageSize - addr mod pageSize lies
\* in 1..128 and fits the 8-bit local), the remaining length strictly
\* decreases, and every call returns after finitely many transactions: the
\* remaining length is a natural number that every iteration lowers, so a
\* call issues at most one read and one write transaction per requested byte.
ChunkNonEmpty ==
    \A k \in DOMAIN bus :
        /\ bus[k].cnt >= 1
        /\ bus[k].cnt <= I2C_BUFFERSIZE
        /\ bus[k].kind = "w" =>
              /\ bytesUntilPageBoundary(bus[k].addr) \in 1..128
              /\ bytesUntilPageBoundary(bus[k].addr) = 128 - (bus[k].addr % 128)

RemainingDecreases ==
    /\ (pc = "pageBlock" /\ bus' # bus) =>
          (pb'.rv # 0 \/ (pb'.len >= 0 /\ pb'.len < pb.len))
    /\ (pc = "readBlock" /\ bus' # bus) =>
          /\ Head(rb'.calls).len >= 0
          /\ Head(rb'.calls).len < Head(rb.calls).len
    /\ (pc = "updateBlock" /\ bus' # bus) =>
          \/ pc' = "updateBlock" /\ ub'.len >= 0 /\ ub'.len < ub.len
          \/ pc' = "pageBlock" /\ pb'.len >= 1 /\ pb'.len <= ub.len
    /\ (pc = "pageBlock" /\ pc' = "updateBlock") =>
          (ub'.len >= 0 /\ ub'.len < ub.len)

TransactionsBounded == Len(bus) <= 2 * op.len

C18_ChunkLoopsTerminate ==
    /\ []ChunkNonEmpty
    /\ [][RemainingDecreases]_vars
    /\ []TransactionsBounded

\* a finished call of several chunks, one of them written from a page start
\* where 128 bytes remain up to the page boundary
C18_Witness ==
    /\ pc = "done"
    /\ Len(bus) >= 3
    /\ \E k \in Writes : bytesUntilPageBoundary(bus[k].addr) = 128

----------------------------------------------------------------------------
\* C15: with page size 128, buffer size 30 and the bank boundary at 0x10000,
\* writing 300 bytes at 0x0FFF0 and reading 300 bytes back delivers 300
\* identical bytes, and the 16th chunk boundary of the write lies exactly at
\* 0x10000.  Stated for runs in which every bus transaction succeeds.
IsScenario300 ==
    /\ op.name = "writeBlockVerify"
    /\ op.addr = 65520
    /\ op.len = 300
    /\ faults = 0

ReadBack300 ==
    /\ verified
    /\ rb.rv = 300
    /\ \A i \in 0..299 : i \in DOMAIN data /\ data[i] = Buf(i)
    /\ \A i \in 0..299 : MemAt(Phys(65520 + i)) = Buf(i)

C15_SixteenthChunkAtBank ==
    (pc = "done" /\ IsScenario300) =>
        /\ ReadBack300
        /\ 16 \in Writes
        /\ bus[16].addr + bus[16].cnt = BankBoundary

\* C15 as amended: the 300 bytes come back identical, and it is the first
\* chunk of the write, 16 bytes long, that ends exactly at 0x10000; the write
\* takes 12 chunks (16, then 30 30 30 30 8 for each of two pages, then 28).
C15_FirstChunkAtBank ==
    (pc = "done" /\ IsScenario300) =>
        /\ ReadBack300
        /\ Cardinality(Writes) = 12
        /\ bus[1].kind = "w"
        /\ bus[1].addr = 65520
        /\ bus[1].cnt = 16
        /\ bus[1].addr + bus[1].cnt = BankBoundary
        /\ \A k \in Writes : k > 1 => bus[k].addr >= BankBoundary
        /\ [k \in 1..12 |-> bus[k].cnt] = <<16, 30, 30, 30, 30, 8, 30, 30, 30, 30, 8, 28>>

\* the scenario ran to its end without a bus failure
C15_Witness ==
    /\ pc = "done"
    /\ IsScenario300
    /\ Len(bus) = 23
    /\ verified

----------------------------------------------------------------------------
\* C16: in every multi-chunk operation (writeBlock, setBlock, readBlock,
\* updateBlock) at least one yield() lies between any two consecutive chunk
\* data transactions.  Two transactions follow each other without a yield
\* only inside one chunk of updateBlock, when the compare read delivered no
\* data and the chunk is then written.
YieldBetween(k) == yld.at[k + 1] > yld.at[k]

C16_WitnessFailedRead ==
    /\ op.name = "updateBlock"
    /\ \E k \in Reads :
          /\ k + 1 \in Writes
          /\ ~YieldBetween(k)

----------------------------------------------------------------------------
\* C13: the ready-wait gate always lets the transaction proceed.  A probe is
\* sent only while no more than 5000 + extraTWR * 1000 microseconds have
\* passed since the last write; each wait loop is left as soon as its probe
\* is acknowledged; when the deadline has passed on entry no probe is sent;
\* and whatever the device answers, the data transaction is issued.
InGate == gate.pc \in {"waitEEReady", "beginTransmission"}

Deadline == 5000 + (gate.extraTWR * 1000)

ProbeOnlyInsideWindow ==
    (gate'.probes > gate.probes) => (gate.now - gate.lastWrite) <= Deadline

AckedProbeLeavesLoop ==
    (gate'.probes > gate.probes /\ gate'.nacks = gate.nacks) => gate'.pc # gate.pc

NoProbeAfterDeadline ==
    (gate.pc \in {"beginTransmission", "data"}
       /\ (gate.entry - gate.lastWrite) > Deadline) => gate.probes = 0

C13_WitnessNoProbe ==
    /\ gate.pc = "data"
    /\ gate.done >= 1
    /\ (gate.entry - gate.lastWrite) > Deadline
    /\ gate.probes = 0

----------------------------------------------------------------------------
\* C14: with a device that acknowledges at once, every low-level read or
\* write transaction started inside the write-recovery window is preceded by
\* exactly one zero-length probe, and no delayMicroseconds is incurred.
\* Stated for the transactions that follow a write.
EnteredInsideWindow == (gate.entry - gate.lastWrite) <= Deadline

C14_OneProbeWhenAcked ==
    (gate.pc = "data" /\ gate.lastWrite > 0 /\ EnteredInsideWindow /\ gate.nacks = 0) =>
        /\ gate.probes = 1
        /\ gate.delays = 0

\* what holds instead: one probe in each of the two wait loops, the second
\* one only while the window is still open, and no delay
ProbesWhenAcked ==
    (gate.pc = "data" /\ EnteredInsideWindow /\ gate.nacks = 0) =>
        /\ gate.probes \in {1, 2}
        /\ gate.probes = 1 <=> (gate.entry + ProbeTime - gate.lastWrite) > Deadline
        /\ gate.delays = 0

----------------------------------------------------------------------------
\* C17: _lastWrite is set to the current time after every low-level write
\* transaction, whether it succeeded or failed; it is left unchanged by every
\* read transaction and by the gate; and the gate compares the clock with it
\* before every read and every write transaction.
LastWriteTracksWrites ==
    /\ (gate.pc = "data" /\ gate.kind = "w") =>
          (gate'.pc = "idle" /\ gate'.lastWrite = gate'.now /\ gate'.now > gate.now)
    /\ ~(gate.pc = "data" /\ gate.kind = "w") => gate'.lastWrite = gate.lastWrite

GateConsulted == gate.pc = "data" => gate.checks >= 2

C17_LastWriteDiscipline ==
    /\ [][LastWriteTracksWrites]_vars
    /\ []GateConsulted

\* a write failed and _lastWrite holds the time it ended; the next
\* transaction, a read, enters the gate inside the window that write opened
C17_Witness ==
    /\ gate.done = 1
    /\ gate.st # 0
    /\ gate.lastWrite > 0
    /\ gate.kind = "r"
    /\ gate.pc = "data"
    /\ gate.entry = gate.lastWrite
    /\ gate.probes > 0

----------------------------------------------------------------------------
\* C19: after a successful heatOff at time t no heat-on command is sent to
\* the device until at least 180000 ms have passed; a heatOn inside that
\* window returns false, records SHT_ERR_HEATER_COOLDOWN and leaves the heater
\* flag off.  This holds for every time t at which the heater was stopped,
\* a stop by the timeout check inside isHeaterOn included.
InsideCooldown == sht.stopAt >= 0 /\ (sht.now - sht.stopAt) < 180000

C19_HeaterCooldown ==
    /\ sht.cmdOn => ~InsideCooldown
    /\ (sht.call = "heatOn" /\ InsideCooldown) =>
          /\ sht.ret = FALSE
          /\ sht.error = "SHT_ERR_HEATER_COOLDOWN"
          /\ sht.heaterOn = FALSE

\* the same for the heaters stopped at a time other than millis() = 0
HeaterCooldownAfterZero ==
    (sht.stopAt > 0) => C19_HeaterCooldown

\* a heatOn refused inside the window, and one accepted right after it
CooldownRefused ==
    /\ sht.call = "heatOn"
    /\ sht.stopAt = 1
    /\ sht.now = 180000
    /\ sht.error = "SHT_ERR_HEATER_COOLDOWN"

CooldownOver ==
    /\ sht.call = "heatOn"
    /\ sht.stopAt = 1
    /\ sht.now = 180001
    /\ sht.heaterOn

----------------------------------------------------------------------------
\* C20: for every 17-bit address m and every value v, write8/16/32(m, v)
\* followed by the matching read8/16/32(m) returns v: _readBlock sets the
\* address pointer on, and fetches the data from, the same bus address
\* (base address + 1 when bit 16 of m is set) that _writeBlock wrote to.
WrittenThenRead(k) ==
    /\ k + 1 \in DOMAIN fram.calls
    /\ fram.calls[k].name = "write"
    /\ fram.calls[k + 1].name = "read"
    /\ fram.calls[k + 1].m = fram.calls[k].m
    /\ fram.calls[k + 1].size = fram.calls[k].size

C20_Fram32RoundTrip ==
    \A k \in DOMAIN fram.calls :
        WrittenThenRead(k) =>
            /\ fram.calls[k + 1].val = fram.calls[k].val
            /\ fram.calls[k + 1].setOn = fram.calls[k].dataOn
            /\ fram.calls[k + 1].dataOn = fram.calls[k].dataOn

\* the same for the lower 64K
Fram32RoundTripLow ==
    \A k \in DOMAIN fram.calls :
        (WrittenThenRead(k) /\ fram.calls[k].m < 65536) =>
            /\ fram.calls[k + 1].val = fram.calls[k].val
            /\ fram.calls[k + 1].setOn = fram.calls[k].dataOn
            /\ fram.calls[k + 1].dataOn = fram.calls[k].dataOn

\* the value comes back from the upper 64K on a chip that keeps one address
\* counter for both bus addresses, and is lost on one that keeps two
Fram32ValueBackShared ==
    \A k \in DOMAIN fram.calls :
        (WrittenThenRead(k) /\ fram.latch = "shared") =>
            fram.calls[k + 1].val = fram.calls[k].val

Fram32ValueLostUpper ==
    \E k \in DOMAIN fram.calls :
        /\ WrittenThenRead(k)
        /\ fram.latch = "perAddress"
        /\ fram.calls[k].m >= 65536
        /\ fram.calls[k + 1].val # fram.calls[k].val

----------------------------------------------------------------------------
\* M62429 claims, over SpecM62429

\* the level the chip must hold for channel c
expectedLevel(c) ==
    IF m62429.muted THEN 0 ELSE (M62429_MAX_ATTN * m62429.vol[c]) \div 255

CacheDeviceConsistent ==
    \A c \in {0, 1} :
        /\ m62429.dev[c] = expectedLevel(c)
        /\ m62429.vol[c] \in 0..255

\* a muteOff that ended a mute leaves the levels muteOn found
MuteOffRestores ==
    (m62429.call.name = "muteOff" /\ m62429.restored) => m62429.dev = m62429.held

\* channel c is one the last call addressed
addressed(c) == m62429'.call.channel = c \/ m62429'.call.channel = 2

\* an accepted incr or decr moves each addressed channel one step and stops
\* at the end of the range
SaturatingSteps ==
    (m62429'.n = m62429.n + 1 /\ m62429'.ret = "M62429_OK") =>
        \A c \in {0, 1} :
            /\ (m62429'.call.name = "incr" /\ addressed(c)) =>
                   m62429'.vol[c] = (IF m62429.vol[c] = 255 THEN 255 ELSE m62429.vol[c] + 1)
            /\ (m62429'.call.name = "decr" /\ addressed(c)) =>
                   m62429'.vol[c] = (IF m62429.vol[c] = 0 THEN 0 ELSE m62429.vol[c] - 1)
            /\ (m62429'.call.name \in {"incr", "decr"} /\ ~addressed(c)) =>
                   m62429'.vol[c] = m62429.vol[c]

\* C21: after begin and any sequence of setVolume, incr, decr, average,
\* muteOn and muteOff, the level latched in the chip for each channel is
\* (87 * _vol[channel]) / 255 while not muted and 0 while muted; the cached
\* volumes stay in 0..255, incr stopping at 255 and decr at 0; and a muteOff
\* after a muteOn brings back the levels held before the mute.
C21_CacheDeviceConsistency ==
    /\ [](CacheDeviceConsistent /\ MuteOffRestores)
    /\ [][SaturatingSteps]_vars

\* two different non-zero levels were muted and are back after muteOff
C21_Witness ==
    /\ m62429.call.name = "muteOff"
    /\ m62429.restored
    /\ m62429.vol[0] = 255
    /\ m62429.vol[1] = 128
    /\ m62429.dev[0] = 87
    /\ m62429.dev[1] = 43
    /\ m62429.held = m62429.dev

\* incr was called at the top of the range and the volume stayed 255
C21_WitnessSaturated ==
    /\ m62429.call.name = "incr"
    /\ m62429.call.channel = 0
    /\ m62429.ret = "M62429_OK"
    /\ m62429.vol[0] = 255
    /\ m62429.sent = 0

\* the last step was a call that returned an error code
rejected ==
    /\ m62429'.n = m62429.n + 1
    /\ m62429'.ret \in {"M62429_CHANNEL_ERROR", "M62429_MUTED"}

\* what a call with these arguments in this state must return, if it must
\* be refused
refusal ==
    IF m62429'.call.name \in {"setVolume", "incr", "decr"} /\ m62429'.call.channel > 2
    THEN "M62429_CHANNEL_ERROR"
    ELSE IF m62429'.call.name \in {"setVolume", "incr", "decr", "average"} /\ m62429.muted
         THEN "M62429_MUTED"
         ELSE "none"

RejectedChangesNothing ==
    /\ (m62429'.n = m62429.n + 1 /\ refusal # "none") => m62429'.ret = refusal
    /\ rejected =>
         /\ m62429'.sent = 0
         /\ m62429'.dev = m62429.dev
         /\ m62429'.vol = m62429.vol
         /\ m62429'.muted = m62429.muted

\* C22: setVolume, incr and decr with channel > 2 return
\* M62429_CHANNEL_ERROR, and setVolume, incr, decr and average while muted
\* (with a valid channel) return M62429_MUTED; a call that returns either
\* code clocks no bits out and leaves the cached volumes, the mute flag and
\* the chip as they were.
C22_RejectedCallsChangeNothing == [][RejectedChangesNothing]_vars

\* setVolume was refused while muted, with a volume cached and the chip silent
C22_Witness ==
    /\ m62429.call.name = "setVolume"
    /\ m62429.call.channel = 0
    /\ m62429.ret = "M62429_MUTED"
    /\ m62429.muted
    /\ m62429.vol[0] = 255
    /\ m62429.dev[0] = 0
    /\ m62429.sent = 0

\* incr was refused for channel 3 with a volume cached and the chip playing
C22_WitnessChannel ==
    /\ m62429.call.name = "incr"
    /\ m62429.call.channel = 3
    /\ m62429.ret = "M62429_CHANNEL_ERROR"
    /\ ~m62429.muted
    /\ m62429.dev[0] = 87
    /\ m62429.sent = 0

====
